---- MODULE Spec2Model ----
(***************************************************************************)
(* Model of dyson-alert (src/main.py): a script run once per invocation    *)
(* that reads the humidity of one device, compares it with a threshold and *)
(* with the reading persisted by the previous run in state.json, sends     *)
(* Pushover notifications on threshold crossings and persists the reading. *)
(* The model covers a sequence of invocations sharing the state file.      *)
(*                                                                         *)
(* Optional values (Python None) are sets with at most one element.        *)
(* A JSON object / Python dict is a function whose domain is its key set.  *)
(***************************************************************************)
EXTENDS Integers, Sequences, FiniteSets, TLC

\* ---------------------------------------------------------------- bounds
MaxReading == 3
MaxThreshold == 2

Readings == 0..MaxReading
Thresholds == 1..MaxThreshold

\* ------------------------------------------------------- optional values
None == {}
Some(x) == {x}
Val(o) == CHOOSE x \in o : TRUE

\* ------------------------------------------------------------- constants
RequiredEnv == {"DYSON_SERIAL", "DYSON_CREDENTIAL", "DYSON_DEVICE_TYPE",
                "DYSON_HOST", "PUSHOVER_APP_TOKEN", "PUSHOVER_USER_TOKEN"}

ConnectOutcomes == {"ok", "DysonInvalidCredential", "DysonConnectionRefused",
                    "DysonConnectTimeout", "DysonNotConnected", "Exception"}

SendOutcomes == {"ok", "HTTPError", "ConnectionError", "Timeout",
                 "RequestException"}

RisingTitle == "Rel. humidity above threshold"
RecoveryTitle == "Rel. humidity OK"

RisingMessage(h) == <<"Humidity is: ", h, "%">>
RecoveryMessage(h) == <<"Humidity returned to OK value (", h, "%)">>

\* ------------------------------------------------------------------ dicts
EmptyDict == [k \in {} |-> 0]
DictGet(d, key) == IF key \in DOMAIN d THEN Some(d[key]) ELSE None
DictSet(d, key, v) == [k \in (DOMAIN d) \cup {key} |-> IF k = key THEN v ELSE d[k]]

\* ------------------------------------------------------------ state store
\* load_state: the parsed file, or {} when the file does not exist
load_state(file) == IF file = None THEN EmptyDict ELSE Val(file)

save_state_keep(file, st) == IF file = None THEN Some(st) ELSE file
\* save_state: open(STATE_FILE, 'w') + json.dump, the file is replaced
save_state(file, st) == Some(st)

\* ------------------------------------------------------------ conditions
EnvOK(env) == RequiredEnv \subseteq env

ConnectFails_swallow(outcome) == outcome \notin {"ok", "DysonNotConnected"}
\* every except clause of the connect try block ends in sys.exit(1)
ConnectFails(outcome) == outcome # "ok"

SendFails_swallow(result) == result \notin {"ok", "Timeout"}
\* every except clause of send_pushover_alert ends in sys.exit(1)
SendFails(result) == result # "ok"

RisingCond_strict(cur, last, max) ==
    cur >= max /\ (last = None \/ Val(last) < max)
\* lines 129-131: humidity >= max and (last is None or last <= max)
RisingCond(cur, last, max) ==
    cur >= max /\ (last = None \/ Val(last) <= max)

RecoveryCond_ge(cur, last, max) ==
    IF ~(cur < max) THEN "False"
    ELSE IF last = None THEN "TypeError"
    ELSE IF Val(last) >= max THEN "True" ELSE "False"
RecoveryCond_both(cur, last, max) ==
    IF ~(cur <= max) THEN "False"
    ELSE IF last = None THEN "TypeError"
    ELSE IF Val(last) >= max THEN "True" ELSE "False"
\* lines 136-137: humidity < max and last_humidity > max.  `and` short-circuits;
\* when last_humidity is None the comparison None > int raises TypeError.
RecoveryCond(cur, last, max) ==
    IF ~(cur < max) THEN "False"
    ELSE IF last = None THEN "TypeError"
    ELSE IF Val(last) > max THEN "True" ELSE "False"

\* -------------------------------------------------------------- variables
VARIABLES
    stateFile,      \* state.json on disk: None (no file) or Some(dict)
    pc,             \* position of the current invocation in main()
    environ,        \* names of the environment variables that are set
    max_humidity,   \* args.max_humidity: None or Some(int)
    humidity,       \* device.humidity once connected: None or Some(int)
    state,          \* local dict returned by load_state()
    last_humidity,  \* state.get('last_humidity'): None or Some(number)
    exit_code,      \* None while running, Some(0) / Some(1) after exit
    error,          \* what ended the run: "" or the name of the failure
    alerts,         \* requests posted by this run, in order
    connects,       \* calls of device.connect in this run
    connect_result, \* how device.connect ended: "" before the call
    fileRead,       \* this run opened state.json for reading
    fileWritten,    \* this run opened state.json for writing
    fileAtStart,    \* history: state.json when this run started
    lastCompleted,  \* history: reading of the last run that exited 0
    alerted,        \* history: threshold of a saved rising alert whose
                    \* later readings all stayed >= that threshold
    owed            \* history: as alerted, and every run since exited 0

vars == <<stateFile, pc, environ, max_humidity, humidity, state,
          last_humidity, exit_code, error, alerts, connects,
          connect_result, fileRead, fileWritten, fileAtStart, lastCompleted,
          alerted, owed>>

runLocal == <<environ, max_humidity, humidity, state, last_humidity, alerts,
              connects, connect_result, fileRead, fileWritten>>
history == <<fileAtStart, lastCompleted, alerted, owed>>

Alert(title, message, result) ==
    [title |-> title, message |-> message, result |-> result]

Titles(as) == {as[i].title : i \in DOMAIN as}
Delivered(as) == {as[i].title : i \in {j \in DOMAIN as : as[j].result = "ok"}}
Count(as, title) == Cardinality({i \in DOMAIN as : as[i].title = title})

EnvChoices == {RequiredEnv} \cup {RequiredEnv \ {v} : v \in RequiredEnv} \cup {{}}

\* ------------------------------------------------------------------- Init
Init ==
    /\ stateFile = None
    /\ pc = "parse_args"
    /\ environ \in EnvChoices
    /\ max_humidity = None
    /\ humidity = None
    /\ state = EmptyDict
    /\ last_humidity = None
    /\ exit_code = None
    /\ error = ""
    /\ alerts = <<>>
    /\ connects = 0
    /\ connect_result = ""
    /\ fileRead = FALSE
    /\ fileWritten = FALSE
    /\ fileAtStart = None
    /\ lastCompleted = None
    /\ alerted = None
    /\ owed = None

\* sys.exit(1), or an uncaught exception
Abort(why) ==
    /\ pc' = "exited"
    /\ exit_code' = Some(1)
    /\ error' = why

\* lines 68-78: parse --max-humidity, exit 1 when it was not given
ParseArgs ==
    /\ pc = "parse_args"
    /\ \E m \in {None} \cup {Some(t) : t \in Thresholds} :
        /\ max_humidity' = m
        /\ IF m = None
             THEN Abort("NoThreshold")
             ELSE pc' = "check_env" /\ UNCHANGED <<exit_code, error>>
    /\ UNCHANGED <<stateFile, environ, humidity, state, last_humidity, alerts,
                   connects, connect_result, fileRead, fileWritten, history>>

\* lines 81-90: all six environment variables must be set
CheckEnv ==
    /\ pc = "check_env"
    /\ IF EnvOK(environ)
         THEN pc' = "connect" /\ UNCHANGED <<exit_code, error>>
         ELSE Abort("EnvNotSet")
    /\ UNCHANGED <<stateFile, runLocal, history>>

\* lines 93-120: connect once; any failure exits 1; then the readings are there
Connect ==
    /\ pc = "connect"
    /\ connects' = connects + 1
    /\ \E outcome \in ConnectOutcomes, h \in Readings :
        /\ connect_result' = outcome
        /\ IF ConnectFails(outcome)
             THEN Abort(outcome) /\ UNCHANGED humidity
             ELSE /\ humidity' = Some(h)
                  /\ pc' = "load"
                  /\ UNCHANGED <<exit_code, error>>
    /\ UNCHANGED <<stateFile, environ, max_humidity, state, last_humidity,
                   alerts, fileRead, fileWritten, history>>

\* lines 123-125
LoadState ==
    /\ pc = "load"
    /\ state' = load_state(stateFile)
    /\ last_humidity' = DictGet(load_state(stateFile), "last_humidity")
    /\ fileRead' = TRUE
    /\ pc' = "check_rising"
    /\ UNCHANGED <<stateFile, environ, max_humidity, humidity, exit_code,
                   error, alerts, connects, connect_result, fileWritten,
                   history>>

\* send_pushover_alert (lines 38-59) called from pc, continuing at next
Send(title, message, next) ==
    \E result \in SendOutcomes :
        /\ alerts' = Append(alerts, Alert(title, message, result))
        /\ IF SendFails(result)
             THEN Abort(result)
             ELSE pc' = next /\ UNCHANGED <<exit_code, error>>

\* lines 128-133
CheckRising ==
    /\ pc = "check_rising"
    /\ IF RisingCond(Val(humidity), last_humidity, Val(max_humidity))
         THEN Send(RisingTitle, RisingMessage(Val(humidity)), "check_recovery")
         ELSE pc' = "check_recovery" /\ UNCHANGED <<exit_code, error, alerts>>
    /\ UNCHANGED <<stateFile, environ, max_humidity, humidity, state,
                   last_humidity, connects, connect_result, fileRead,
                   fileWritten, history>>

\* lines 135-139
CheckRecovery ==
    /\ pc = "check_recovery"
    /\ LET c == RecoveryCond(Val(humidity), last_humidity, Val(max_humidity))
       IN  CASE c = "TypeError" -> Abort("TypeError") /\ UNCHANGED alerts
             [] c = "True" -> Send(RecoveryTitle,
                                   RecoveryMessage(Val(humidity)), "save")
             [] OTHER -> pc' = "save" /\ UNCHANGED <<exit_code, error, alerts>>
    /\ UNCHANGED <<stateFile, environ, max_humidity, humidity, state,
                   last_humidity, connects, connect_result, fileRead,
                   fileWritten, history>>

\* lines 141-144: record the reading, write the file, fall off main (exit 0)
SaveState ==
    /\ pc = "save"
    /\ state' = DictSet(state, "last_humidity", Val(humidity))
    /\ stateFile' = save_state(stateFile, DictSet(state, "last_humidity", Val(humidity)))
    /\ fileWritten' = TRUE
    /\ pc' = "exited"
    /\ exit_code' = Some(0)
    /\ lastCompleted' = humidity
    /\ UNCHANGED <<environ, max_humidity, humidity, last_humidity, error,
                   alerts, connects, connect_result, fileRead, fileAtStart,
                   alerted, owed>>

\* the rising alert of the run that just ended was delivered and saved
RisingSaved == exit_code = Some(0) /\ RisingTitle \in Delivered(alerts)

\* history kept across the run that just ended: set by a saved rising alert,
\* dropped by another threshold or by a reading below the threshold
StillAbove(h) ==
    IF RisingSaved THEN max_humidity
    ELSE IF h # None /\ max_humidity # None /\ max_humidity # h THEN None
    ELSE IF h # None /\ humidity # None /\ Val(humidity) < Val(h) THEN None
    ELSE h

\* the next scheduled invocation of the script: a fresh process, same disk
NextRun ==
    /\ pc = "exited"
    /\ pc' = "parse_args"
    /\ environ' \in EnvChoices
    /\ max_humidity' = None
    /\ humidity' = None
    /\ state' = EmptyDict
    /\ last_humidity' = None
    /\ exit_code' = None
    /\ error' = ""
    /\ alerts' = <<>>
    /\ connects' = 0
    /\ connect_result' = ""
    /\ fileRead' = FALSE
    /\ fileWritten' = FALSE
    /\ fileAtStart' = stateFile
    /\ alerted' = StillAbove(alerted)
    /\ owed' = IF exit_code = Some(0) THEN StillAbove(owed) ELSE None
    /\ UNCHANGED <<stateFile, lastCompleted>>

Next ==
    \/ ParseArgs
    \/ CheckEnv
    \/ Connect
    \/ LoadState
    \/ CheckRising
    \/ CheckRecovery
    \/ SaveState
    \/ NextRun

Spec == Init /\ [][Next]_vars

\* ------------------------------------------------------------- properties
Cur == Val(humidity)
Max == Val(max_humidity)
Evaluated == fileRead /\ pc # "check_rising"
FailedAlerts == {i \in DOMAIN alerts : alerts[i].result # "ok"}
PersistedHumidity == DictGet(Val(stateFile), "last_humidity")

RecoveryRule ==
    (fileRead /\ last_humidity # None /\ pc \in {"save", "exited"}) =>
        ((RecoveryTitle \in Titles(alerts)) <=>
            (Cur < Max /\ Val(last_humidity) > Max))

RecoverySent ==
    /\ pc = "exited"
    /\ exit_code = Some(0)
    /\ last_humidity # None
    /\ Val(last_humidity) > Max
    /\ Cur < Max
    /\ RecoveryTitle \in Delivered(alerts)

\* C3: once a run has sent the rising-edge alert and saved its state, no later
\* run with the same threshold sends it again while every reading since then
\* stayed at or above the threshold.
NoRepeatedRising ==
    (alerted # None /\ alerted = max_humidity) =>
        RisingTitle \notin Titles(alerts)

\* C4: with no state file and a reading below the threshold the run sends
\* nothing, saves the reading as last_humidity and exits 0.
MissingStateBelowThreshold ==
    (pc = "exited" /\ fileRead /\ fileAtStart = None /\ Cur < Max) =>
        /\ alerts = <<>>
        /\ exit_code = Some(0)
        /\ stateFile # None
        /\ PersistedHumidity = humidity

\* C5: every run that reached the evaluation and had no notification fail
\* ends with state.json holding last_humidity = the reading of that run.
StateAlwaysSaved ==
    (pc = "exited" /\ fileRead /\ FailedAlerts = {}) =>
        /\ stateFile # None
        /\ PersistedHumidity = humidity

\* C6: a notification that fails ends the run at once with exit code 1: it is
\* the last request of the run and state.json is as it was when the run began.
NotifyFailureAborts ==
    \A i \in FailedAlerts :
        /\ pc = "exited"
        /\ exit_code = Some(1)
        /\ i = Len(alerts)
        /\ ~fileWritten
        /\ stateFile = fileAtStart

NotifyFailedWithState ==
    /\ FailedAlerts # {}
    /\ pc = "exited"
    /\ fileAtStart # None
    /\ PersistedHumidity # humidity

\* C7: the persisted last_humidity, when there is a state file, is the reading
\* of the most recent run that exited 0; a run that exits 1 leaves the file as
\* it found it, the file is not touched before the end of a run, and a run
\* that exits 0 connected, read the state, delivered its alerts and saved.
PersistedIsLastSuccess ==
    /\ stateFile # None =>
          (lastCompleted # None /\ PersistedHumidity = lastCompleted)
    /\ stateFile = None => lastCompleted = None
    /\ exit_code # Some(0) => (stateFile = fileAtStart /\ ~fileWritten)
    /\ exit_code = Some(0) =>
          /\ connect_result = "ok"
          /\ fileRead /\ fileWritten
          /\ FailedAlerts = {}
          /\ PersistedHumidity = humidity

AbortedRunKeptState ==
    /\ pc = "exited"
    /\ exit_code = Some(1)
    /\ humidity # None
    /\ stateFile # None
    /\ PersistedHumidity # humidity
    /\ PersistedHumidity = lastCompleted

\* C8: when device.connect fails, whatever the failure, the run exits 1 after
\* that single attempt, posts nothing and neither reads nor writes state.json.
ConnectFailureAborts ==
    connect_result \notin {"", "ok"} =>
        /\ pc = "exited"
        /\ exit_code = Some(1)
        /\ connects = 1
        /\ alerts = <<>>
        /\ ~fileRead
        /\ ~fileWritten
        /\ stateFile = fileAtStart

ConnectFailedWithState ==
    /\ connect_result = "DysonInvalidCredential"
    /\ pc = "exited"
    /\ stateFile # None

\* C9: a run posts at most one notification: the rising-edge alert and the
\* recovery alert are never both sent by the same run.
AtMostOneAlert ==
    /\ Len(alerts) <= 1
    /\ ~(RisingTitle \in Titles(alerts) /\ RecoveryTitle \in Titles(alerts))

OneAlertRun ==
    /\ pc = "exited"
    /\ exit_code = Some(0)
    /\ Len(alerts) = 1
    /\ last_humidity # None

\* C10: over successful runs with one threshold, the first run with a reading
\* below the threshold after a run that sent the rising-edge alert sends the
\* recovery alert, and no second rising-edge alert comes before it.
AlertsAlternate ==
    (owed # None /\ owed = max_humidity) =>
        /\ RisingTitle \notin Delivered(alerts)
        /\ (pc = "exited" /\ exit_code = Some(0) /\ Cur < Max) =>
               RecoveryTitle \in Delivered(alerts)

====
